---- MODULE Spec2Model ----
(***************************************************************************)
(* A model of rs-rdc (Rust Data Codegen): the IntermediateRepresentation   *)
(* and its dependency collector (src/src/ir/data.rs, src/src/codegen.rs),  *)
(* the Java generator entry point (src/src/targets/java.rs), the Java type *)
(* resolver (src/src/targets/java/type_resolver.rs), the Name converter    *)
(* (src/src/ir/data.rs) and the behaviour of the generated tagged-union    *)
(* serializer / deserializer (src/src/targets/java/cg_data_enum).          *)
(*                                                                         *)
(* Rust Strings are sequences of one-character strings, so that the case   *)
(* conversions are computed character by character as the code does.       *)
(***************************************************************************)
EXTENDS Integers, Sequences, FiniteSets, TLC

(***************************************************************************)
(* Bounds of the model.                                                    *)
(***************************************************************************)
\* number of root ir.add::<T>() calls made on one IntermediateRepresentation
MaxRoots == 2

(***************************************************************************)
(* ASCII helpers (char::to_ascii_uppercase / to_ascii_lowercase /          *)
(* is_ascii_uppercase of the Rust standard library).                       *)
(***************************************************************************)
Lowers ==
  <<"a","b","c","d","e","f","g","h","i","j","k","l","m",
    "n","o","p","q","r","s","t","u","v","w","x","y","z">>

Uppers ==
  <<"A","B","C","D","E","F","G","H","I","J","K","L","M",
    "N","O","P","Q","R","S","T","U","V","W","X","Y","Z">>

is_ascii_uppercase(c) == \E i \in 1..Len(Uppers) : Uppers[i] = c

is_ascii_lowercase(c) == \E i \in 1..Len(Lowers) : Lowers[i] = c

to_ascii_uppercase(c) ==
  IF is_ascii_lowercase(c)
    THEN Uppers[CHOOSE i \in 1..Len(Lowers) : Lowers[i] = c]
    ELSE c

to_ascii_lowercase(c) ==
  IF is_ascii_uppercase(c)
    THEN Lowers[CHOOSE i \in 1..Len(Uppers) : Uppers[i] = c]
    ELSE c

\* concatenation of a sequence of strings
RECURSIVE Concat(_)
Concat(ss) == IF ss = <<>> THEN <<>> ELSE Head(ss) \o Concat(Tail(ss))

(***************************************************************************)
(* Name (src/src/ir/data.rs): a Name is its snake_case String.             *)
(***************************************************************************)
from_snake_case(s) == s

\* the loop of from_camel_case over the characters after the first
RECURSIVE CamelRest(_)
CamelRest(cs) ==
  IF cs = <<>> THEN <<>>
  ELSE IF is_ascii_uppercase(Head(cs))
    THEN <<"_", to_ascii_lowercase(Head(cs))>> \o CamelRest(Tail(cs))
    ELSE <<Head(cs)>> \o CamelRest(Tail(cs))

\* mutant of from_camel_case: the first character goes through the loop as the
\* others do
from_camel_case_NoFirst(s) == CamelRest(s)

from_camel_case(s) ==
  IF s = <<>> THEN <<>>
  ELSE <<to_ascii_lowercase(Head(s))>> \o CamelRest(Tail(s))

from_pascal_case(s) == from_camel_case(s)

as_snake_case(n) == n

\* str::to_ascii_uppercase
RECURSIVE StrUpper(_)
StrUpper(s) ==
  IF s = <<>> THEN <<>> ELSE <<to_ascii_uppercase(Head(s))>> \o StrUpper(Tail(s))

\* mutant of as_upper_snake_case: the snake form is returned as it is
as_upper_snake_case_Same(n) == n

as_upper_snake_case(n) == StrUpper(n)

\* the while loop of as_camel_case: an underscore consumes the next character
\* and pushes it uppercased; a trailing underscore is dropped
RECURSIVE as_camel_case(_)
as_camel_case(n) ==
  IF n = <<>> THEN <<>>
  ELSE IF Head(n) = "_"
    THEN IF Len(n) >= 2
           THEN <<to_ascii_uppercase(n[2])>> \o as_camel_case(Tail(Tail(n)))
           ELSE <<>>
    ELSE <<Head(n)>> \o as_camel_case(Tail(n))

\* mutant of as_pascal_case: the first character is left as it is
as_pascal_case_Camel(n) == as_camel_case(n)

as_pascal_case(n) ==
  LET camel_case == as_camel_case(n)
  IN IF camel_case = <<>> THEN <<>>
     ELSE <<to_ascii_uppercase(Head(camel_case))>> \o Tail(camel_case)

(***************************************************************************)
(* The Rust types of the program under analysis.  A type is named by the   *)
(* text of the Rust type, which stands for its std::any::TypeId: two       *)
(* instantiations of one generic are two types, and a container of T is a  *)
(* type of its own.  The user types are those of the crate's tests and     *)
(* documentation.                                                          *)
(***************************************************************************)
Prims == {"bool", "i8", "i16", "i32", "i64", "f32", "f64", "String"}

Vecs == {"Vec<i32>", "Vec<Dependency>"}

Options == {"Option<i32>", "Option<Dependency>"}

Boxes == {"Box<i32>", "Box<TestEnum<i32>>"}

Maps == {"HashMap<String,Dependency>"}

Containers == Vecs \cup Options \cup Boxes \cup Maps

StructTypes ==
  {"Dependency", "MyStruct", "Value", "raw_point",
   "MyStruct<i32>", "MyStruct<String>", "MyStruct<Option<i32>>", "MyStruct<Box<i32>>"}

EnumTypes == {"MyEnum", "ExportType"}

DataEnumTypes == {"TestEnum<i32>", "Cell"}

UserTypes == StructTypes \cup EnumTypes \cup DataEnumTypes

Types == Prims \cup Containers \cup UserTypes

\* the type parameters of a container or of a generic user type
TypeArgs(t) ==
  CASE t = "Vec<i32>" -> <<"i32">>
    [] t = "Vec<Dependency>" -> <<"Dependency">>
    [] t = "Option<i32>" -> <<"i32">>
    [] t = "Option<Dependency>" -> <<"Dependency">>
    [] t = "Box<i32>" -> <<"i32">>
    [] t = "Box<TestEnum<i32>>" -> <<"TestEnum<i32>">>
    [] t = "HashMap<String,Dependency>" -> <<"String", "Dependency">>
    [] t = "MyStruct<i32>" -> <<"i32">>
    [] t = "MyStruct<String>" -> <<"String">>
    [] t = "MyStruct<Option<i32>>" -> <<"Option<i32>">>
    [] t = "MyStruct<Box<i32>>" -> <<"Box<i32>">>
    [] t = "TestEnum<i32>" -> <<"i32">>
    [] OTHER -> <<>>

\* the identifier of a user type, without its type parameters
Ident(t) ==
  CASE t = "Dependency" -> <<"D","e","p","e","n","d","e","n","c","y">>
    [] t \in {"MyStruct", "MyStruct<i32>", "MyStruct<String>",
              "MyStruct<Option<i32>>", "MyStruct<Box<i32>>"} ->
         <<"M","y","S","t","r","u","c","t">>
    [] t = "Value" -> <<"V","a","l","u","e">>
    [] t = "MyEnum" -> <<"M","y","E","n","u","m">>
    [] t = "ExportType" -> <<"E","x","p","o","r","t","T","y","p","e">>
    [] t = "TestEnum<i32>" -> <<"T","e","s","t","E","n","u","m">>
    [] t = "Cell" -> <<"C","e","l","l">>
    [] t = "raw_point" -> <<"r","a","w","_","p","o","i","n","t">>

\* the fields of the structs: identifier, serde name, Rust type
StructFields(t) ==
  CASE t = "Dependency" ->
         <<[ident |-> <<"f","i","e","l","d","1">>, json_name |-> "field1", ty |-> "String"]>>
    [] t = "MyStruct" ->
         <<[ident |-> <<"f","i","e","l","d","1">>, json_name |-> "field1", ty |-> "String"],
           [ident |-> <<"d","e","p","e","n","d","e","n","c","y">>, json_name |-> "dependency",
            ty |-> "Dependency"]>>
    [] t = "Value" ->
         <<[ident |-> <<"v","a","l","u","e">>, json_name |-> "value", ty |-> "ExportType"]>>
    [] t = "raw_point" ->
         <<[ident |-> <<"x">>, json_name |-> "x", ty |-> "i32"]>>
    [] t \in {"MyStruct<i32>", "MyStruct<String>", "MyStruct<Option<i32>>",
              "MyStruct<Box<i32>>"} ->
         <<[ident |-> <<"v","a","l","u","e">>, json_name |-> "value", ty |-> TypeArgs(t)[1]]>>

\* the variants of the plain enums: identifier, serde name
EnumVariants(t) ==
  CASE t = "MyEnum" ->
         <<[ident |-> <<"V","a","r","i","a","n","t","1">>, json_name |-> "Variant1"],
           [ident |-> <<"V","a","r","i","a","n","t","2">>, json_name |-> "Variant2"]>>
    [] t = "ExportType" ->
         <<[ident |-> <<"C","s","v">>, json_name |-> "CSV"],
           [ident |-> <<"J","s","o","n">>, json_name |-> "Json"],
           [ident |-> <<"X","m","l">>, json_name |-> "XML"]>>

\* the variants of TestEnum<T> (cg_data_enum.rs tests): shape, identifier,
\* serde name, the Rust types of the payload (tys) and, for an Object variant,
\* its fields (ofields)
TestEnumVariants(T) ==
  <<[shape |-> "Tuple", ident |-> <<"C","s","v">>, json_name |-> "Csv",
     tys |-> <<"String">>, ofields |-> <<>>],
    [shape |-> "Tuple", ident |-> <<"J","s","o","n">>, json_name |-> "JSON",
     tys |-> <<"i32">>, ofields |-> <<>>],
    [shape |-> "Tuple", ident |-> <<"X","m","l">>, json_name |-> "XML",
     tys |-> <<"f64", "i32">>, ofields |-> <<>>],
    [shape |-> "Tuple", ident |-> <<"Y","a","m","l">>, json_name |-> "YAML",
     tys |-> <<T>>, ofields |-> <<>>],
    [shape |-> "Object", ident |-> <<"O","t","h","e","r">>, json_name |-> "Other",
     tys |-> <<"String">>,
     ofields |-> <<[ident |-> <<"n","a","m","e">>, json_name |-> "other", ty |-> "String"]>>],
    [shape |-> "Unit", ident |-> <<"U","n","i","t">>, json_name |-> "Unit",
     tys |-> <<>>, ofields |-> <<>>],
    [shape |-> "Tuple", ident |-> <<"L","i","s","t">>, json_name |-> "List",
     tys |-> <<"Vec<i32>">>, ofields |-> <<>>],
    [shape |-> "Tuple", ident |-> <<"N","e","s","t","e","d">>, json_name |-> "Nested",
     tys |-> <<"Box<TestEnum<i32>>">>, ofields |-> <<>>]>>

\* the variants of enum Cell { At(i32, i32), At0(i32) }: a Tuple variant of two
\* slots, and one of one slot whose identifier is the other's followed by 0
CellVariants ==
  <<[shape |-> "Tuple", ident |-> <<"A","t">>, json_name |-> "At",
     tys |-> <<"i32", "i32">>, ofields |-> <<>>],
    [shape |-> "Tuple", ident |-> <<"A","t","0">>, json_name |-> "At0",
     tys |-> <<"i32">>, ofields |-> <<>>]>>

DataEnumVariants(t) ==
  CASE t = "TestEnum<i32>" -> TestEnumVariants("i32")
    [] t = "Cell" -> CellVariants

\* the types a user type's definition mentions, in declaration order
RECURSIVE FlattenTys(_)
FlattenTys(vs) == IF vs = <<>> THEN <<>> ELSE Head(vs).tys \o FlattenTys(Tail(vs))

FieldTypes(t) ==
  IF t \in StructTypes THEN [i \in 1..Len(StructFields(t)) |-> StructFields(t)[i].ty]
  ELSE IF t \in DataEnumTypes THEN FlattenTys(DataEnumVariants(t))
  ELSE <<>>

(***************************************************************************)
(* The Java type resolver (src/src/targets/java/type_resolver.rs).         *)
(* java_type and java_custom_type of a user type come from #[derive(RDC)]: *)
(* the class name is the identifier followed by the Java types of the type *)
(* parameters (BIntegerDouble, TestEnumInteger in the tests).              *)
(***************************************************************************)
\* mutant of bind_java_type: every primitive is bound to the machine type int
bind_java_type_Primitive(t) == <<"i","n","t">>

bind_java_type(t) ==
  CASE t = "bool" -> <<"B","o","o","l","e","a","n">>
    [] t = "i8" -> <<"B","y","t","e">>
    [] t = "i16" -> <<"S","h","o","r","t">>
    [] t = "i32" -> <<"I","n","t","e","g","e","r">>
    [] t = "i64" -> <<"L","o","n","g">>
    [] t = "f32" -> <<"F","l","o","a","t">>
    [] t = "f64" -> <<"D","o","u","b","l","e">>
    [] t = "String" -> <<"S","t","r","i","n","g">>

RECURSIVE java_type(_)
RECURSIVE java_custom_type(_)

java_custom_type(t) ==
  Ident(t) \o Concat([i \in 1..Len(TypeArgs(t)) |-> java_type(TypeArgs(t)[i])])

java_type(t) ==
  IF t \in Prims THEN bind_java_type(t)
  ELSE IF t \in Vecs THEN
    <<"j","a","v","a",".","u","t","i","l",".","L","i","s","t","<">>
      \o java_type(TypeArgs(t)[1]) \o <<">">>
  ELSE IF t \in Options THEN java_type(TypeArgs(t)[1])
  ELSE IF t \in Maps THEN
    <<"j","a","v","a",".","u","t","i","l",".","M","a","p","<">>
      \o java_type(TypeArgs(t)[1]) \o <<",", " ">> \o java_type(TypeArgs(t)[2]) \o <<">">>
  ELSE IF t \in Boxes THEN java_type(TypeArgs(t)[1])
  ELSE java_custom_type(t)

\* TypeTarget::resolve_type / resolve_custom_type (src/src/ir/types.rs)
resolve_type(t) == java_type(t)

resolve_custom_type(t) == java_custom_type(t)

(***************************************************************************)
(* The IR entities #[derive(RDC)] builds for a user type.  `of` is a ghost *)
(* field: the type identity the entity was built for.                      *)
(***************************************************************************)
DeriveName(t) == from_pascal_case(java_custom_type(t))

DeriveStruct(t) ==
  [of |-> t, name |-> DeriveName(t), self_type |-> resolve_custom_type(t),
   fields |-> [i \in 1..Len(StructFields(t)) |->
                [name |-> from_snake_case(StructFields(t)[i].ident),
                 json_name |-> StructFields(t)[i].json_name,
                 field_type |-> resolve_type(StructFields(t)[i].ty)]]]

DeriveEnum(t) ==
  [of |-> t, name |-> DeriveName(t), self_type |-> resolve_custom_type(t),
   variants |-> [i \in 1..Len(EnumVariants(t)) |->
                  [name |-> from_pascal_case(EnumVariants(t)[i].ident),
                   json_name |-> EnumVariants(t)[i].json_name]]]

DeriveVariant(v) ==
  [shape |-> v.shape, name |-> from_pascal_case(v.ident), json_name |-> v.json_name,
   types |-> IF v.shape = "Tuple" THEN [i \in 1..Len(v.tys) |-> resolve_type(v.tys[i])]
             ELSE <<>>,
   fields |-> [i \in 1..Len(v.ofields) |->
                [name |-> from_snake_case(v.ofields[i].ident),
                 json_name |-> v.ofields[i].json_name,
                 field_type |-> resolve_type(v.ofields[i].ty)]]]

DeriveDataEnum(t) ==
  [of |-> t, name |-> DeriveName(t), self_type |-> resolve_custom_type(t),
   style |-> "External",
   variants |-> [i \in 1..Len(DataEnumVariants(t)) |-> DeriveVariant(DataEnumVariants(t)[i])]]

(***************************************************************************)
(* State.                                                                  *)
(*   structs, enums, data_enums, type_ids: the IntermediateRepresentation  *)
(*   stack:   the call stack of the running ir.add::<T>() (top last); a    *)
(*            frame is a call of add::<t> or of t::add_to_ir at its i-th   *)
(*            callee (i = 0: the body has not started)                     *)
(*   walked:  ghost, the types whose add_to_ir body has started, in order   *)
(*   ncalls:  the number of root add calls made so far                     *)
(*   roots:   ghost, the types of the root add calls made so far, in order  *)
(*   emit_first: whether the derived add_to_ir hands its entity to the IR  *)
(*            before or after it registers its field types (both orders    *)
(*            are covered)                                                 *)
(*   result, fail_at: the value the last generate_java_code returned, and  *)
(*            the entity whose rendering failed in it (0: none)            *)
(*   which:   the tagged union (an index of DataEnums) whose generated     *)
(*            class is exercised                                           *)
(*   instance: the instance handed to the serializer                       *)
(*   wire:    the JSON document written by the serializer, or handed to    *)
(*            the deserializer                                             *)
(*   parsed:  what the deserializer returned or threw                      *)
(*   phase:   "value", "wire", "parsed": how far the exchange has got      *)
(*            ("off" while the collector is the subject)                   *)
(*   pc, guard, poisoned, ncompleted, ret: the test threads that call      *)
(*            run_java and GRADLE_MUTEX (described with the actions)       *)
(***************************************************************************)
VARIABLES structs, enums, data_enums, type_ids, stack, walked, ncalls, roots, emit_first,
          result, fail_at,
          which, instance, wire, parsed, phase, got,
          style, words, text, ctor, made, out,
          term, resolved,
          irs, calls, outputs,
          pc, guard, poisoned, ncompleted, ret

irvars == <<structs, enums, data_enums, type_ids, stack, walked, ncalls, roots, emit_first,
            result, fail_at>>

codecvars == <<which, instance, wire, parsed, phase, got>>

namevars == <<style, words, text, ctor, made, out>>

resolvervars == <<term, resolved>>

twovars == <<irs, calls, outputs>>

mutexvars == <<pc, guard, poisoned, ncompleted, ret>>

vars == <<irvars, codecvars, namevars, resolvervars, twovars, mutexvars>>

\* no Name is being converted
NameOff ==
  /\ style = "none"
  /\ words = <<>>
  /\ text = <<>>
  /\ ctor = "none"
  /\ made = <<>>
  /\ out = <<>>

\* no type is being resolved
ResolverOff ==
  /\ term = <<>>
  /\ resolved = <<>>

\* no second registry is in use
TwoOff ==
  /\ irs = <<>>
  /\ calls = <<>>
  /\ outputs = <<>>

\* no test is running generated Java code
MutexOff ==
  /\ pc = <<>>
  /\ guard = 0
  /\ poisoned = FALSE
  /\ ncompleted = <<>>
  /\ ret = <<>>

\* the types the callers register as roots
Roots ==
  {"i32", "Dependency", "MyStruct", "MyEnum", "Value", "TestEnum<i32>", "Cell", "raw_point",
   "Vec<Dependency>", "Option<Dependency>", "HashMap<String,Dependency>",
   "MyStruct<i32>", "MyStruct<String>", "MyStruct<Option<i32>>", "MyStruct<Box<i32>>"}

NoResult == [kind |-> "None", classes |-> <<>>, message |-> ""]

Frame(op, t, i) == [op |-> op, t |-> t, i |-> i]

Top == stack[Len(stack)]

Pop == SubSeq(stack, 1, Len(stack) - 1)

(***************************************************************************)
(* IntermediateRepresentation (src/src/ir/data.rs).                        *)
(***************************************************************************)
\* mutant of add_struct: the struct is put in front of the others
add_struct_Front(ss, s) == <<s>> \o ss

add_struct(ss, s) == Append(ss, s)

add_enum(es, e) == Append(es, e)

add_data_enum(des, de) == Append(des, de)

add_type_id(ids, type_id) == ids \cup {type_id}

\* mutant of has_type_id: an identity counts as seen as soon as any identity is
has_type_id_Any(ids, type_id) == ids # {}

has_type_id(ids, type_id) == type_id \in ids

\* IntermediateRepresentation::new
IRInit ==
  /\ structs = <<>>
  /\ enums = <<>>
  /\ data_enums = <<>>
  /\ type_ids = {}
  /\ stack = <<>>
  /\ walked = <<>>
  /\ ncalls = 0
  /\ roots = <<>>
  /\ emit_first \in BOOLEAN
  /\ result = NoResult
  /\ fail_at = 0

\* a caller's ir.add::<t>() on an idle IR
AddRoot(t) ==
  /\ stack = <<>>
  /\ ncalls < MaxRoots
  /\ stack' = <<Frame("add", t, 0)>>
  /\ ncalls' = ncalls + 1
  /\ roots' = Append(roots, t)
  /\ result' = NoResult
  /\ fail_at' = 0
  /\ UNCHANGED <<structs, enums, data_enums, type_ids, walked, emit_first>>
  /\ UNCHANGED <<codecvars, namevars, resolvervars, twovars, mutexvars>>

\* mutant of AddFrames: add::<t>() calls T::add_to_ir whether or not the identity
\* has been seen
AddFrames_Always(ids, t) == <<Frame("body", t, 0)>>

\* the frame add::<t>() leaves on the stack: T::add_to_ir when the identity is
\* new, nothing when it has been seen
AddFrames(ids, t) ==
  IF ~has_type_id(ids, t) THEN <<Frame("body", t, 0)>> ELSE <<>>

\* the seen set after add::<t>(): the identity is inserted before T::add_to_ir
AddTypeIds(ids, t) ==
  IF ~has_type_id(ids, t) THEN add_type_id(ids, t) ELSE ids

\* IntermediateRepresentation::add: the check and the insertion
Add ==
  /\ stack # <<>>
  /\ Top.op = "add"
  /\ type_ids' = AddTypeIds(type_ids, Top.t)
  /\ stack' = Pop \o AddFrames(type_ids, Top.t)
  /\ UNCHANGED <<structs, enums, data_enums, walked, ncalls, roots, emit_first, result, fail_at>>
  /\ UNCHANGED <<codecvars, namevars, resolvervars, twovars, mutexvars>>

\* the calls a type's add_to_ir makes, in order: a container's element types
\* (codegen.rs), a derived type's field and payload types
Callees(t) == IF t \in Containers THEN TypeArgs(t) ELSE FieldTypes(t)

\* how add_to_ir of t reaches its callee c: the container impls call
\* T::add_to_ir(ir) directly (codegen.rs), a derived body calls ir.add::<F>()
CallFrame(t, c) ==
  IF t \in Containers THEN Frame("body", c, 0) ELSE Frame("add", c, 0)

\* the derived add_to_ir hands its entity to the IR
EmitStructs(t) == IF t \in StructTypes THEN add_struct(structs, DeriveStruct(t)) ELSE structs

EmitEnums(t) == IF t \in EnumTypes THEN add_enum(enums, DeriveEnum(t)) ELSE enums

EmitDataEnums(t) ==
  IF t \in DataEnumTypes THEN add_data_enum(data_enums, DeriveDataEnum(t)) ELSE data_enums

Emit(t) ==
  /\ structs' = EmitStructs(t)
  /\ enums' = EmitEnums(t)
  /\ data_enums' = EmitDataEnums(t)

\* T::add_to_ir starts
BodyEnter ==
  /\ stack # <<>>
  /\ Top.op = "body"
  /\ Top.i = 0
  /\ walked' = Append(walked, Top.t)
  /\ stack' = Pop \o <<Frame("body", Top.t, 1)>>
  /\ IF emit_first THEN Emit(Top.t) ELSE UNCHANGED <<structs, enums, data_enums>>
  /\ UNCHANGED <<type_ids, ncalls, roots, emit_first, result, fail_at>>
  /\ UNCHANGED <<codecvars, namevars, resolvervars, twovars, mutexvars>>

\* T::add_to_ir makes its next call
BodyCall ==
  /\ stack # <<>>
  /\ Top.op = "body"
  /\ Top.i >= 1
  /\ Top.i <= Len(Callees(Top.t))
  /\ stack' = Pop \o <<Frame("body", Top.t, Top.i + 1), CallFrame(Top.t, Callees(Top.t)[Top.i])>>
  /\ UNCHANGED <<structs, enums, data_enums, type_ids, walked, ncalls, roots, emit_first,
                 result, fail_at>>
  /\ UNCHANGED <<codecvars, namevars, resolvervars, twovars, mutexvars>>

\* T::add_to_ir returns
BodyReturn ==
  /\ stack # <<>>
  /\ Top.op = "body"
  /\ Top.i > Len(Callees(Top.t))
  /\ stack' = Pop
  /\ IF emit_first THEN UNCHANGED <<structs, enums, data_enums>> ELSE Emit(Top.t)
  /\ UNCHANGED <<type_ids, walked, ncalls, roots, emit_first, result, fail_at>>
  /\ UNCHANGED <<codecvars, namevars, resolvervars, twovars, mutexvars>>

(***************************************************************************)
(* The Java generator (src/src/targets/java.rs and cg_struct.rs,           *)
(* cg_enum.rs, cg_data_enum.rs).  The code of a class is kept as the       *)
(* identifiers the template places: the declared class, its constructor.   *)
(* Rendering the tokens of a class may fail (Tokens::to_string); `fails`   *)
(* says whether it does for the class at hand.                             *)
(***************************************************************************)
Error_new(message) == [kind |-> "Err", classes |-> <<>>, message |-> message]

\* JavaClass::from_tokens: Ok(JavaClass) or the Error
from_tokens(name, tokens, fails) ==
  IF fails THEN [ok |-> FALSE, class |-> [name |-> <<>>, code |-> tokens]]
  ELSE [ok |-> TRUE, class |-> [name |-> name, code |-> tokens]]

generate_data_class(dc, fails) ==
  LET class_name == as_pascal_case(dc.name)
      tokens == [unit |-> "class", declared |-> dc.self_type, constructor |-> class_name]
  IN from_tokens(class_name, tokens, fails)

generate_enum_class(enum_ir, fails) ==
  LET class_name == as_pascal_case(enum_ir.name)
      tokens == [unit |-> "enum", declared |-> class_name, constructor |-> class_name]
  IN from_tokens(class_name, tokens, fails)

\* format!("{counter}") of a usize
RECURSIVE format_usize(_)
format_usize(n) ==
  IF n < 10 THEN <<<<"0","1","2","3","4","5","6","7","8","9">>[n + 1]>>
  ELSE format_usize(n \div 10) \o format_usize(n % 10)

Member(role, name, arity) == [role |-> role, name |-> name, arity |-> arity]

\* generate_field_code: the methods the class gets for the variant v, in the
\* order of the template: the factory ofX, the accessors (getX of an Object
\* variant and of a Tuple variant of one slot, getX0 .. of a Tuple variant of
\* any other number of slots), the predicate isX; arity is the number of
\* parameters of the method
generate_field_code(de, v) ==
  LET of_method_name == <<"o","f">> \o as_pascal_case(v.name)
      is_method_name == <<"i","s">> \o as_pascal_case(v.name)
      getter_numbering == Len(v.types) # 1
      getters ==
        IF v.shape = "Unit" THEN <<>>
        ELSE IF v.shape = "Object"
          THEN <<Member("accessor", <<"g","e","t">> \o as_pascal_case(v.name), 0)>>
        ELSE [counter \in 1..Len(v.types) |->
                Member("accessor",
                       IF getter_numbering
                         THEN <<"g","e","t">> \o as_pascal_case(v.name) \o format_usize(counter - 1)
                         ELSE <<"g","e","t">> \o as_pascal_case(v.name),
                       0)]
      params == IF v.shape = "Unit" THEN 0
                ELSE IF v.shape = "Object" THEN 1 ELSE Len(v.types)
  IN <<Member("factory", of_method_name, params)>> \o getters
       \o <<Member("predicate", is_method_name, 0)>>

\* generate_fields_code: the members of every variant, in declaration order
generate_fields_code(de) ==
  Concat([k \in 1..Len(de.variants) |-> generate_field_code(de, de.variants[k])])

generate_enum_data_class(de, fails) ==
  LET class_name == as_pascal_case(de.name)
      tokens == [unit |-> "class", declared |-> class_name, constructor |-> class_name,
                 members |-> generate_fields_code(de)]
  IN from_tokens(class_name, tokens, fails)

\* mutant of GenerateNth: the enums are rendered before the structs
GenerateNth_EnumsFirst(ss, es, des, k, fails) ==
  IF k <= Len(es) THEN generate_enum_class(es[k], fails)
  ELSE IF k <= Len(es) + Len(ss) THEN generate_data_class(ss[k - Len(es)], fails)
  ELSE generate_enum_data_class(des[k - Len(ss) - Len(es)], fails)

\* the class of the k-th entity of the IR, structs first, then enums, then data enums
GenerateNth(ss, es, des, k, fails) ==
  IF k <= Len(ss) THEN generate_data_class(ss[k], fails)
  ELSE IF k <= Len(ss) + Len(es) THEN generate_enum_class(es[k - Len(ss)], fails)
  ELSE generate_enum_data_class(des[k - Len(ss) - Len(es)], fails)

\* mutant of OnRenderError: the classes rendered so far are returned
OnRenderError_KeepPartial(classes) == [kind |-> "Ok", classes |-> classes, message |-> ""]

\* what a failed rendering does to the generation: the ? operator returns the Error
OnRenderError(classes) == Error_new("Failed to generate Java code")

\* the three for loops of generate_java_code from the k-th entity on, `classes`
\* being the classes pushed so far; failing is the entity whose rendering fails
RECURSIVE GenerateFrom(_, _, _, _, _, _)
GenerateFrom(ss, es, des, k, classes, failing) ==
  IF k > Len(ss) + Len(es) + Len(des)
    THEN [kind |-> "Ok", classes |-> classes, message |-> ""]
  ELSE LET r == GenerateNth(ss, es, des, k, k = failing)
       IN IF r.ok THEN GenerateFrom(ss, es, des, k + 1, Append(classes, r.class), failing)
          ELSE OnRenderError(classes)

generate_java_code(ss, es, des, failing) == GenerateFrom(ss, es, des, 1, <<>>, failing)

NumEntities == Len(structs) + Len(enums) + Len(data_enums)

\* mutant of Generate: the generator drains the collections it renders
Generate_Draining(failing) ==
  /\ stack = <<>>
  /\ result' = generate_java_code(structs, enums, data_enums, failing)
  /\ fail_at' = failing
  /\ structs' = <<>>
  /\ enums' = <<>>
  /\ data_enums' = <<>>
  /\ UNCHANGED <<type_ids, stack, walked, ncalls, roots, emit_first>>
  /\ UNCHANGED <<codecvars, namevars, resolvervars, twovars, mutexvars>>

\* a caller's generate_java_code(&ir) on an idle IR
Generate(failing) ==
  /\ stack = <<>>
  /\ result' = generate_java_code(structs, enums, data_enums, failing)
  /\ fail_at' = failing
  /\ UNCHANGED <<structs, enums, data_enums, type_ids, stack, walked, ncalls, roots, emit_first>>
  /\ UNCHANGED <<codecvars, namevars, resolvervars, twovars, mutexvars>>


(***************************************************************************)
(* Properties of the collector and of generate_java_code.                  *)
(***************************************************************************)
\* the number of entities of the IR built for type identity t
CountOf(es, t) == Cardinality({i \in 1..Len(es) : es[i].of = t})

\* the number of times the add_to_ir body of t has started
Runs(t) == Cardinality({i \in 1..Len(walked) : walked[i] = t})

EntityCount(t) == CountOf(structs, t) + CountOf(enums, t) + CountOf(data_enums, t)

\* the types reachable from the set S through fields, payloads and containers
RECURSIVE ReachableFrom(_)
ReachableFrom(S) ==
  LET N == S \cup UNION {{Callees(t)[i] : i \in 1..Len(Callees(t))} : t \in S}
  IN IF N = S THEN S ELSE ReachableFrom(N)

\* C1: every type identity has at most one entity across structs, enums and
\* data_enums together, and the add_to_ir body that builds it has run at most
\* once, by whatever path the type was reached.
C1_OneEntityPerIdentity ==
  \A t \in UserTypes : EntityCount(t) <= 1 /\ Runs(t) <= 1

\* C2: the second encounter of an identity short-circuits: a type whose
\* add_to_ir body has been walked is never walked again, and no entity is
\* emitted for it again.
C2_SecondEncounterShortCircuits ==
  [][\A t \in UserTypes :
       Runs(t) >= 1 =>
         /\ Runs(t)' = Runs(t)
         /\ (EntityCount(t) >= 1 => EntityCount(t)' = EntityCount(t))]_vars

\* C3: when add::<T>() has returned, every struct, enum and data enum reachable
\* from the registered types has exactly one entity, and primitives and
\* containers have none.
C3_ExactlyOneEntityPerReachable ==
  stack = <<>> =>
    \A t \in ReachableFrom(type_ids) :
      IF t \in UserTypes THEN EntityCount(t) = 1 ELSE EntityCount(t) = 0

\* the type identity and the class name of every entity of the IR, in the
\* order generate_java_code renders them
Classes ==
  [i \in 1..Len(structs) |->
     [of |-> structs[i].of, name |-> as_pascal_case(structs[i].name)]]
  \o [i \in 1..Len(enums) |->
     [of |-> enums[i].of, name |-> as_pascal_case(enums[i].name)]]
  \o [i \in 1..Len(data_enums) |->
     [of |-> data_enums[i].of, name |-> as_pascal_case(data_enums[i].name)]]

\* two instantiations of one generic type
SameGeneric(a, b) ==
  a # b /\ Ident(a) = Ident(b) /\ TypeArgs(a) # <<>> /\ TypeArgs(b) # <<>>

\* C4: two instantiations of a generic type with different type arguments are
\* registered as two entities whose generated classes have different names,
\* also when the arguments differ only by an Option or Box wrapper.
C4_DistinctClassNames ==
  \A i, j \in 1..Len(Classes) :
    SameGeneric(Classes[i].of, Classes[j].of) => Classes[i].name # Classes[j].name

\* C5: on success generate_java_code returns one class per entity, structs
\* first, then enums, then data enums, each list in insertion order, each class
\* named by the pascal case of its entity's name.
C5_OneClassPerEntityInOrder ==
  result.kind = "Ok" =>
    /\ Len(result.classes) = Len(structs) + Len(enums) + Len(data_enums)
    /\ \A k \in 1..Len(result.classes) : result.classes[k].name = Classes[k].name

\* a successful generation from an IR holding structs, enums and a data enum
C5_Witness ==
  /\ result.kind = "Ok"
  /\ Len(structs) >= 1
  /\ Len(enums) >= 1
  /\ Len(data_enums) >= 1

\* C6: generation is all-or-nothing: when the rendering of any entity fails,
\* whatever its position, the result is the Error with its message and no
\* class; otherwise it is the full class list.
C6_AllOrNothing ==
  result.kind # "None" =>
    IF fail_at = 0
      THEN result.kind = "Ok" /\ Len(result.classes) = NumEntities
      ELSE result.kind = "Err" /\ result.classes = <<>> /\ result.message # ""

\* a generation that failed at an enum or a data enum, after structs were rendered
C6_Witness ==
  /\ result.kind = "Err"
  /\ Len(structs) >= 1
  /\ fail_at > Len(structs)

(***************************************************************************)
(* The generated tagged-union class at run time                            *)
(* (src/src/targets/java/cg_data_enum.rs, cg_data_enum/external.rs).       *)
(*                                                                         *)
(* Java values and JSON nodes are tuples whose first element names the     *)
(* kind.  A Double is kept as twice its value, so that 3.5 is 7 and the    *)
(* Double read from the integer token n is 2 * n.                          *)
(***************************************************************************)
JNull == <<"null">>

JString(s) == <<"String", s>>

JInteger(n) == <<"Integer", n>>

JDouble(h) == <<"Double", h>>

JList(xs) == <<"List", xs>>

\* an Object[]
JArray(xs) == <<"Object[]", xs>>

\* an instance of the holder class of an Object variant: its fields in
\* declaration order, each with its @JsonProperty name
JHolder(props) == <<"Holder", props>>

\* new $class_name(variant, value)
JInstance(variant, value) == <<"Instance", variant, value>>

NNull == <<"null">>

NString(s) == <<"string", s>>

NInt(n) == <<"int", n>>

NFloat(h) == <<"float", h>>

NArray(xs) == <<"array", xs>>

\* a JSON object: its members, in document order, as <<key, node>> (keys distinct)
NObject(members) == <<"object", members>>

IsArray(node) == node[1] = "array"

IsObject(node) == node[1] = "object"

IsString(node) == node[1] = "string"

\* ObjectNode.has / ObjectNode.get
has(node, key) == \E i \in 1..Len(node[2]) : node[2][i][1] = key

get(node, key) == node[2][CHOOSE i \in 1..Len(node[2]) : node[2][i][1] = key][2]

\* the variant of de whose Variant constant is `variant`
VariantOf(de, variant) ==
  de.variants[CHOOSE i \in 1..Len(de.variants) :
                as_upper_snake_case(de.variants[i].name) = variant]

\* mutant of TupleOnePayload: the Object[] is written without being unwrapped
TupleOnePayload_Array(array) == array

\* the payload the serializer of an arity-1 Tuple variant writes: the slot itself
TupleOnePayload(array) == array[2][1]

\* generate_external_serializer: the value written under the wire tag of
\* variant v for the instance's payload
SerializedPayload(v, payload) ==
  IF v.shape = "Object" THEN payload
  ELSE IF Len(v.types) = 1 THEN TupleOnePayload(payload)
  ELSE payload

\* Serializer.serialize, with Jackson's writeObjectField of the payload:
\* the JSON node written for a Java value
RECURSIVE writeObject(_, _)
Serializer_serialize(de, value) ==
  LET v == VariantOf(de, value[2])
  IN IF v.shape = "Unit" THEN NString(v.json_name)
     ELSE NObject(<< <<v.json_name, writeObject(de, SerializedPayload(v, value[3]))>> >>)

writeObject(de, x) ==
  CASE x[1] = "null" -> NNull
    [] x[1] = "String" -> NString(x[2])
    [] x[1] = "Integer" -> NInt(x[2])
    [] x[1] = "Double" -> NFloat(x[2])
    [] x[1] = "List" -> NArray([i \in 1..Len(x[2]) |-> writeObject(de, x[2][i])])
    [] x[1] = "Object[]" -> NArray([i \in 1..Len(x[2]) |-> writeObject(de, x[2][i])])
    [] x[1] = "Holder" ->
         NObject([i \in 1..Len(x[2]) |-> <<x[2][i][1], writeObject(de, x[2][i][2])>>])
    [] x[1] = "Instance" -> Serializer_serialize(de, x)

\* the outcome of a read: the Java value, or the exception thrown
Ok(x) == <<"ok", x>>

Err(e) == <<"err", e>>

IsOk(r) == r[1] = "ok"

\* the first failure among the outcomes rs, or all their values
AllOk(rs) ==
  IF \E i \in 1..Len(rs) : ~IsOk(rs[i])
    THEN rs[CHOOSE i \in 1..Len(rs) : ~IsOk(rs[i]) /\ \A j \in 1..(i - 1) : IsOk(rs[j])]
    ELSE Ok([i \in 1..Len(rs) |-> rs[i][2]])

ListPrefix == <<"j","a","v","a",".","u","t","i","l",".","L","i","s","t","<">>

IsListType(type) ==
  /\ Len(type) > Len(ListPrefix) + 1
  /\ SubSeq(type, 1, Len(ListPrefix)) = ListPrefix

ElementType(type) == SubSeq(type, Len(ListPrefix) + 1, Len(type) - 1)

\* the variants the two branches of Deserializer.deserialize test, in
\* declaration order (generate_external_deserializer: unit_cases, object_cases)
RECURSIVE SelectShapes(_, _)
SelectShapes(vs, unit) ==
  IF vs = <<>> THEN <<>>
  ELSE IF (Head(vs).shape = "Unit") = unit
    THEN <<Head(vs)>> \o SelectShapes(Tail(vs), unit)
    ELSE SelectShapes(Tail(vs), unit)

\* mutant of unit_cases: every variant is a case of the string branch
unit_cases_All(de) == de.variants

unit_cases(de) == SelectShapes(de.variants, TRUE)

\* mutant of object_cases: the cases are pushed last declared first
object_cases_Reversed(de) ==
  LET cs == SelectShapes(de.variants, FALSE)
  IN [i \in 1..Len(cs) |-> cs[Len(cs) + 1 - i]]

object_cases(de) == SelectShapes(de.variants, FALSE)

\* the first case whose test succeeds: 0 when none does
FirstCase(tests) ==
  IF \E i \in 1..Len(tests) : tests[i]
    THEN CHOOSE i \in 1..Len(tests) : tests[i] /\ \A j \in 1..(i - 1) : ~tests[j]
    ELSE 0

\* the TypeReferences a non-Unit variant passes to parseField: the holder
\* class of an Object variant, the slot types of a Tuple variant
TypeReferences(v) ==
  IF v.shape = "Object" THEN <<as_pascal_case(v.name)>> ELSE v.types

\* mutant of CannotDeserialize: the message does not name the class
CannotDeserialize_Anonymous(de) == Err(<<"InstantiationException: Cannot deserialize">>)

\* ctxt.instantiationException($class_name_str.class, "Cannot deserialize " + name):
\* the message, followed by the characters of the class name
CannotDeserialize(de) ==
  Err(<<"InstantiationException: Cannot deserialize">> \o as_pascal_case(de.name))

\* mutant of ArraySizeMismatch: the slots are dropped instead of refused
ArraySizeMismatch_Truncate(key) == Ok(JArray(<<>>))

\* what the array branch of parseField does with an array whose size is not
\* types.length
ArraySizeMismatch(key) == Err(<<"JsonParseException: Expected array of size", key>>)

RECURSIVE Deserializer_deserialize(_, _)
RECURSIVE readValueAs(_, _, _)
RECURSIVE parseField(_, _, _, _)

\* Deserializer.parseField
parseField(de, node, key, types) ==
  IF ~has(node, key) THEN Ok(JArray([i \in 1..Len(types) |-> JNull]))
  ELSE LET field == get(node, key)
       IN IF IsArray(field)
            THEN IF Len(field[2]) # Len(types) THEN ArraySizeMismatch(key)
                 ELSE LET rs == AllOk([i \in 1..Len(types) |->
                                         readValueAs(de, types[i], field[2][i])])
                      IN IF IsOk(rs) THEN Ok(JArray(rs[2])) ELSE rs
          ELSE IF Len(types) # 1 THEN Err(<<"JsonParseException: Expected array for field", key>>)
          ELSE LET r == readValueAs(de, types[1], field)
               IN IF IsOk(r) THEN Ok(JArray(<<r[2]>>)) ELSE r

\* the fields of the holder class named type, when type is one
HolderFields(de, type) ==
  LET I == {i \in 1..Len(de.variants) :
              de.variants[i].shape = "Object" /\ as_pascal_case(de.variants[i].name) = type}
  IN IF I = {} THEN <<>> ELSE de.variants[CHOOSE i \in I : TRUE].fields

IsHolderType(de, type) ==
  \E i \in 1..Len(de.variants) :
    de.variants[i].shape = "Object" /\ as_pascal_case(de.variants[i].name) = type

\* JsonParser.readValueAs(TypeReference): Jackson's databinding of a node to a
\* Java type; a null token gives null, a token of another kind than the type's
\* is refused (Jackson's scalar coercions are not modelled)
readValueAs(de, type, node) ==
  IF node = NNull THEN Ok(JNull)
  ELSE IF type = bind_java_type("String")
    THEN IF IsString(node) THEN Ok(JString(node[2])) ELSE Err(<<"MismatchedInputException">>)
  ELSE IF type = bind_java_type("i32")
    THEN IF node[1] = "int" THEN Ok(JInteger(node[2])) ELSE Err(<<"MismatchedInputException">>)
  ELSE IF type = bind_java_type("f64")
    THEN IF node[1] = "float" THEN Ok(JDouble(node[2]))
         ELSE IF node[1] = "int" THEN Ok(JDouble(2 * node[2]))
         ELSE Err(<<"MismatchedInputException">>)
  ELSE IF IsListType(type)
    THEN IF IsArray(node)
           THEN LET rs == AllOk([i \in 1..Len(node[2]) |->
                                   readValueAs(de, ElementType(type), node[2][i])])
                IN IF IsOk(rs) THEN Ok(JList(rs[2])) ELSE rs
           ELSE Err(<<"MismatchedInputException">>)
  ELSE IF type = as_pascal_case(de.name) THEN Deserializer_deserialize(de, node)
  ELSE IF IsHolderType(de, type)
    THEN IF IsObject(node)
              /\ \A m \in 1..Len(node[2]) :
                   \E f \in 1..Len(HolderFields(de, type)) :
                     HolderFields(de, type)[f].json_name = node[2][m][1]
           THEN LET fs == HolderFields(de, type)
                    rs == AllOk([f \in 1..Len(fs) |->
                                   IF has(node, fs[f].json_name)
                                     THEN readValueAs(de, fs[f].field_type,
                                                      get(node, fs[f].json_name))
                                     ELSE Ok(JNull)])
                IN IF IsOk(rs)
                     THEN Ok(JHolder([f \in 1..Len(fs) |-> <<fs[f].json_name, rs[2][f]>>]))
                     ELSE rs
           ELSE Err(<<"MismatchedInputException">>)
  ELSE Err(<<"MismatchedInputException">>)

\* deserialize_unit_variant: return new $base_name(Variant.$case, null)
deserialize_unit_variant(de, v) == Ok(JInstance(as_upper_snake_case(v.name), JNull))

\* deserialize_object_variant: the payload is parseField(...)[0]
deserialize_object_variant(de, v, node) ==
  LET r == parseField(de, node, v.json_name, TypeReferences(v))
  IN IF IsOk(r) THEN Ok(JInstance(as_upper_snake_case(v.name), r[2][2][1])) ELSE r

\* deserialize_tuple_variant: the payload is the Object[] parseField returns
deserialize_tuple_variant(de, v, node) ==
  LET r == parseField(de, node, v.json_name, TypeReferences(v))
  IN IF IsOk(r) THEN Ok(JInstance(as_upper_snake_case(v.name), r[2])) ELSE r

\* Deserializer.deserialize
Deserializer_deserialize(de, node) ==
  LET cannot == CannotDeserialize(de)
  IN IF IsString(node)
       THEN LET cases == unit_cases(de)
                k == FirstCase([i \in 1..Len(cases) |-> node[2] = cases[i].json_name])
            IN IF k = 0 THEN cannot ELSE deserialize_unit_variant(de, cases[k])
     ELSE IF IsObject(node)
       THEN LET cases == object_cases(de)
                k == FirstCase([i \in 1..Len(cases) |-> has(node, cases[i].json_name)])
            IN IF k = 0 THEN cannot
               ELSE IF cases[k].shape = "Object"
                 THEN deserialize_object_variant(de, cases[k], node)
                 ELSE deserialize_tuple_variant(de, cases[k], node)
     ELSE cannot

(***************************************************************************)
(* The factories of the generated class (generate_field_code).             *)
(***************************************************************************)
\* ofX() of a Unit variant
of_unit(v) == JInstance(as_upper_snake_case(v.name), JNull)

\* ofX(value) of an Object variant
of_object(v, value) == JInstance(as_upper_snake_case(v.name), value)

\* ofX(arg0, ...) of a Tuple variant
of_tuple(v, args) == JInstance(as_upper_snake_case(v.name), JArray(args))

\* mutant of is_variant: the predicate does not look at the discriminant
is_variant_Always(v, x) == TRUE

\* isX(): variant == Variant.$variant_enum_name
is_variant(v, x) == x[2] = as_upper_snake_case(v.name)

\* mutant of get_payload: the payload is returned without looking at the variant
get_payload_Unchecked(v, slot, x) == Ok(x[3])

\* getX() of an Object variant and getX() / getX<slot - 1>() of a Tuple variant:
\* the IllegalStateException when the instance is of another variant, else
\* the holder, or the slot of the Object[]
get_payload(v, slot, x) ==
  IF x[2] # as_upper_snake_case(v.name)
    THEN Err(<<"IllegalStateException: Invalid variant">> \o x[2])
  ELSE IF v.shape = "Object" THEN Ok(x[3])
  ELSE Ok(x[3][2][slot])

\* the accessors the class has: one per Object variant, one per slot of a
\* Tuple variant, none for a Unit variant
Accessors(de) ==
  {<<k, 1>> : k \in {i \in 1..Len(de.variants) : de.variants[i].shape = "Object"}}
    \cup UNION {{<<k, slot>> : slot \in 1..Len(de.variants[k].types)} :
                  k \in {i \in 1..Len(de.variants) : de.variants[i].shape = "Tuple"}}

(***************************************************************************)
(* The tagged unions whose generated classes are exercised: TestEnum<i32>  *)
(* as the collector leaves it in the IR, and a DataEnum built by hand with *)
(* DataEnum::new / add_variant that has two Unit variants, a Tuple variant *)
(* without slots, one with two slots and an Object variant.                *)
(***************************************************************************)
Shape ==
  [of |-> "Shape", name |-> from_pascal_case(<<"S","h","a","p","e">>), self_type |-> <<"S","h","a","p","e">>,
   style |-> "External",
   variants |->
     <<[shape |-> "Unit", name |-> from_pascal_case(<<"E","m","p","t","y">>), json_name |-> "Empty",
        types |-> <<>>, fields |-> <<>>],
       [shape |-> "Tuple", name |-> from_pascal_case(<<"P","o","i","n","t">>), json_name |-> "Point",
        types |-> <<bind_java_type("i32"), bind_java_type("i32")>>, fields |-> <<>>],
       [shape |-> "Unit", name |-> from_pascal_case(<<"B","l","a","n","k">>), json_name |-> "BLANK",
        types |-> <<>>, fields |-> <<>>],
       [shape |-> "Object", name |-> from_pascal_case(<<"N","a","m","e","d">>), json_name |-> "named",
        types |-> <<>>,
        fields |-> <<[name |-> from_snake_case(<<"x">>), json_name |-> "x",
                      field_type |-> bind_java_type("i32")]>>],
       [shape |-> "Tuple", name |-> from_pascal_case(<<"N","i","l">>), json_name |-> "Nil",
        types |-> <<>>, fields |-> <<>>]>>]

DataEnums == <<DeriveDataEnum("TestEnum<i32>"), Shape>>

\* bounds of the values: the longest list, and how deep a union nests in itself
MaxListLen == 2

MaxDepth == 1

Ints == {0, 7}

Strs == {"x", "Unit"}

\* the lists of Integer of at most n elements
RECURSIVE IntLists(_)
IntLists(n) ==
  IF n = 0 THEN {<<>>}
  ELSE IntLists(n - 1)
         \cup {Append(l, JInteger(i)) : l \in {m \in IntLists(n - 1) : Len(m) = n - 1}, i \in Ints}

\* the Java values of a type that are used as payloads; depth bounds the
\* nesting of the union in itself
RECURSIVE Instances(_, _)
RECURSIVE ValuesOf(_, _, _)
RECURSIVE ArgLists(_, _, _)

ValuesOf(de, type, depth) ==
  {JNull} \cup
  (IF type = bind_java_type("String") THEN {JString(x) : x \in Strs}
   ELSE IF type = bind_java_type("i32") THEN {JInteger(i) : i \in Ints}
   ELSE IF type = bind_java_type("f64") THEN {JDouble(7)}
   ELSE IF IsListType(type) THEN {JList(l) : l \in IntLists(MaxListLen)}
   ELSE IF type = as_pascal_case(de.name)
     THEN IF depth = 0 THEN {} ELSE Instances(de, depth - 1)
   ELSE {})

\* the argument lists of a factory whose parameters have the given types
ArgLists(de, types, depth) ==
  IF types = <<>> THEN {<<>>}
  ELSE {<<a>> \o rest : a \in ValuesOf(de, Head(types), depth),
                        rest \in ArgLists(de, Tail(types), depth)}

\* the holder instances of an Object variant, and null
Holders(de, v, depth) ==
  {JNull} \cup
  {JHolder([f \in 1..Len(v.fields) |-> <<v.fields[f].json_name, args[f]>>]) :
     args \in ArgLists(de, [f \in 1..Len(v.fields) |-> v.fields[f].field_type], depth)}

\* the instances the factories of variant v build
InstancesOf(de, v, depth) ==
  IF v.shape = "Unit" THEN {of_unit(v)}
  ELSE IF v.shape = "Object" THEN {of_object(v, h) : h \in Holders(de, v, depth)}
  ELSE {of_tuple(v, args) : args \in ArgLists(de, v.types, depth)}

Instances(de, depth) ==
  UNION {InstancesOf(de, de.variants[i], depth) : i \in 1..Len(de.variants)}

\* the JSON documents handed to the deserializer that no serializer wrote:
\* scalars, arrays, and objects of one or two members under any pair of keys
Keys(de) == {de.variants[i].json_name : i \in 1..Len(de.variants)} \cup {"nope"}

Payloads ==
  {NNull, NString("x"), NInt(7), NFloat(7), NArray(<<>>), NArray(<<NInt(7)>>),
   NArray(<<NInt(7), NInt(0)>>), NArray(<<NString("x")>>), NObject(<<>>),
   NObject(<< <<"other", NString("x")>> >>), NObject(<< <<"x", NInt(7)>> >>)}

FewPayloads == {NString("x"), NInt(7), NArray(<<NInt(7), NInt(0)>>)}

Documents(de) ==
  {NString(k) : k \in Keys(de)}
    \cup {NNull, NInt(7), NFloat(7), NArray(<<>>), NArray(<<NString("Unit")>>), NObject(<<>>)}
    \cup {NObject(<< <<k, p>> >>) : k \in Keys(de), p \in Payloads}
    \cup UNION {{NObject(<< <<k1, p1>>, <<k2, p2>> >>) :
                    k2 \in Keys(de) \ {k1}, p1 \in FewPayloads, p2 \in FewPayloads} :
                 k1 \in Keys(de)}

(***************************************************************************)
(* The exchange with a generated class: a value built by a factory is      *)
(* serialized and the document read back, or a document from elsewhere is  *)
(* handed to the deserializer.                                             *)
(***************************************************************************)
DE == DataEnums[which]

\* an IR that stays idle while a generated class is exercised
IRIdle ==
  /\ structs = <<>>
  /\ enums = <<>>
  /\ data_enums = <<>>
  /\ type_ids = {}
  /\ stack = <<>>
  /\ walked = <<>>
  /\ ncalls = 0
  /\ roots = <<>>
  /\ emit_first = TRUE
  /\ result = NoResult
  /\ fail_at = 0

\* no accessor has been called
NoAccess == [on |-> <<"none">>, variant |-> 0, slot |-> 0, outcome |-> <<"none", <<>>>>]

InitCodec ==
  /\ IRIdle
  /\ NameOff
  /\ ResolverOff
  /\ TwoOff
  /\ MutexOff
  /\ got = NoAccess
  /\ which \in 1..Len(DataEnums)
  /\ parsed = <<"none", <<>>>>
  /\ \/ /\ phase = "value"
        /\ instance \in Instances(DE, MaxDepth)
        /\ wire = NNull
     \/ /\ phase = "wire"
        /\ instance = <<"none">>
        /\ wire \in Documents(DE)

\* objectMapper.writeValueAsString(instance)
Serialize ==
  /\ phase = "value"
  /\ wire' = Serializer_serialize(DE, instance)
  /\ phase' = "wire"
  /\ UNCHANGED <<which, instance, parsed, got>>
  /\ UNCHANGED <<irvars, namevars, resolvervars, twovars, mutexvars>>

\* objectMapper.readValue(wire, new TypeReference<$class_name>() {})
Deserialize ==
  /\ phase = "wire"
  /\ parsed' = Deserializer_deserialize(DE, wire)
  /\ phase' = "parsed"
  /\ UNCHANGED <<which, instance, wire, got>>
  /\ UNCHANGED <<irvars, namevars, resolvervars, twovars, mutexvars>>

\* a call of the accessor of variant k for the given slot, on the instance a
\* factory built or on the one the deserializer returned
Access(k, slot) ==
  /\ \/ phase = "value"
     \/ phase = "parsed" /\ IsOk(parsed)
  /\ LET x == IF phase = "value" THEN instance ELSE parsed[2]
     IN got' = [on |-> x, variant |-> k, slot |-> slot,
                outcome |-> get_payload(DE.variants[k], slot, x)]
  /\ phase' = "accessed"
  /\ UNCHANGED <<which, instance, wire, parsed>>
  /\ UNCHANGED <<irvars, namevars, resolvervars, twovars, mutexvars>>

NextCodec ==
  \/ Serialize
  \/ Deserialize
  \/ \E a \in Accessors(DE) : Access(a[1], a[2])

SpecCodec == InitCodec /\ [][NextCodec]_vars

(***************************************************************************)
(* The specification of the collector and the generator.                   *)
(***************************************************************************)
\* no exchange with a generated class is under way
CodecOff ==
  /\ which = 1
  /\ instance = <<"none">>
  /\ wire = NNull
  /\ parsed = <<"none", <<>>>>
  /\ phase = "off"
  /\ got = NoAccess

Init == IRInit /\ CodecOff /\ NameOff /\ ResolverOff /\ TwoOff /\ MutexOff

Next ==
  \/ \E t \in Roots : AddRoot(t)
  \/ Add
  \/ BodyEnter
  \/ BodyCall
  \/ BodyReturn
  \/ \E failing \in 0..NumEntities : Generate(failing)

Spec == Init /\ [][Next]_vars

(***************************************************************************)
(* Properties of the generated serializer and deserializer.                *)
(***************************************************************************)
Sent == instance # <<"none">>

\* the variant of the instance that was serialized, and its payload
SentVariant == VariantOf(DE, instance[2])

\* C7: the serializer writes the bare wire tag for a Unit variant, and a
\* single-key object under the wire tag otherwise, whose value is the holder's
\* object for an Object variant, the slot itself for a Tuple variant of arity 1,
\* and an array of exactly n elements in slot order for arity n > 1.
C7_WireEncoding ==
  (Sent /\ phase \in {"wire", "parsed"}) =>
    IF SentVariant.shape = "Unit" THEN wire = NString(SentVariant.json_name)
    ELSE /\ IsObject(wire)
         /\ Len(wire[2]) = 1
         /\ wire[2][1][1] = SentVariant.json_name
         /\ LET payload == wire[2][1][2]
                slots == instance[3][2]
            IN IF SentVariant.shape = "Object" THEN payload = writeObject(DE, instance[3])
               ELSE IF Len(SentVariant.types) = 1 THEN payload = writeObject(DE, slots[1])
               ELSE /\ IsArray(payload)
                    /\ Len(payload[2]) = Len(SentVariant.types)
                    /\ \A i \in 1..Len(slots) : payload[2][i] = writeObject(DE, slots[i])

\* a Tuple instance of arity 1 whose slot holds a list has been serialized
C7_Witness ==
  /\ Sent
  /\ phase = "wire"
  /\ SentVariant.shape = "Tuple"
  /\ Len(SentVariant.types) = 1
  /\ instance[3][2][1][1] = "List"

\* C8: round trip: reading back what the serializer wrote for a value gives
\* an equal value, for every variant shape and payload.
C8_RoundTrip ==
  (Sent /\ phase = "parsed") => parsed = Ok(instance)

\* the variants of DE that a document can select: the Unit variants whose wire
\* tag is the string, the other variants whose wire tag is a key of the object
UnitMatches ==
  {i \in 1..Len(DE.variants) :
     DE.variants[i].shape = "Unit" /\ IsString(wire) /\ DE.variants[i].json_name = wire[2]}

ObjectMatches ==
  {i \in 1..Len(DE.variants) :
     DE.variants[i].shape # "Unit" /\ IsObject(wire) /\ has(wire, DE.variants[i].json_name)}

First(I) == CHOOSE i \in I : \A j \in I : i <= j

\* C9: the deserializer looks at the token kind first.  A string selects the
\* first Unit variant with that wire tag and gives it an absent payload; an
\* object selects only among the non-Unit variants; any other token, a string
\* that is no Unit tag and an object without a non-Unit tag all fail.
C9_TokenKindFirst ==
  phase = "parsed" =>
    IF IsString(wire)
      THEN IF UnitMatches = {} THEN ~IsOk(parsed)
           ELSE parsed =
                  Ok(JInstance(as_upper_snake_case(DE.variants[First(UnitMatches)].name), JNull))
    ELSE IF IsObject(wire)
      THEN IF ObjectMatches = {} THEN ~IsOk(parsed)
           ELSE IsOk(parsed) =>
                  \E i \in ObjectMatches :
                    parsed[2][2] = as_upper_snake_case(DE.variants[i].name)
    ELSE ~IsOk(parsed)

\* a string naming a Unit variant declared after a non-Unit one has been read
C9_Witness ==
  /\ phase = "parsed"
  /\ IsString(wire)
  /\ IsOk(parsed)
  /\ First(UnitMatches) > 1

\* C10: an object with keys matching the wire tags of two or more non-Unit
\* variants resolves to the one declared first, whatever the shapes and the
\* order of the keys: the outcome is that variant's, never a later one's.
C10_FirstDeclaredWins ==
  (phase = "parsed" /\ Cardinality(ObjectMatches) >= 2) =>
    LET v == DE.variants[First(ObjectMatches)]
    IN /\ parsed = IF v.shape = "Object" THEN deserialize_object_variant(DE, v, wire)
                   ELSE deserialize_tuple_variant(DE, v, wire)
       /\ IsOk(parsed) => parsed[2][2] = as_upper_snake_case(v.name)

\* an object whose first key is the tag of the later declared of two matching
\* variants has been read, and gave an instance
C10_Witness ==
  /\ phase = "parsed"
  /\ Cardinality(ObjectMatches) >= 2
  /\ IsOk(parsed)
  /\ wire[2][1][1] # DE.variants[First(ObjectMatches)].json_name

\* the variant the object branch selects for the document, and its payload
Selected == DE.variants[First(ObjectMatches)]

SelectedPayload == get(wire, Selected.json_name)

\* C11: arity enforcement: reading a Tuple variant of arity n from an array
\* whose length is not n fails, a value read for it always has exactly n
\* slots, and for n > 1 a payload that is no array fails.
C11_ArityEnforced ==
  (phase = "parsed" /\ ObjectMatches # {} /\ Selected.shape = "Tuple") =>
    LET n == Len(Selected.types)
    IN /\ (IsArray(SelectedPayload) /\ Len(SelectedPayload[2]) # n) => ~IsOk(parsed)
       /\ (n > 1 /\ ~IsArray(SelectedPayload)) => ~IsOk(parsed)
       /\ IsOk(parsed) => Len(parsed[2][3][2]) = n

\* a Tuple variant of two slots has been read from an array of another length
C11_Witness ==
  /\ phase = "parsed"
  /\ ObjectMatches # {}
  /\ Selected.shape = "Tuple"
  /\ Len(Selected.types) = 2
  /\ IsArray(SelectedPayload)
  /\ Len(SelectedPayload[2]) = 1
  /\ ~IsOk(parsed)

\* the document selects no variant: a string that is no Unit tag, an object
\* without the tag of a non-Unit variant, or a token of another kind
NoVariantMatches ==
  IF IsString(wire) THEN UnitMatches = {}
  ELSE IF IsObject(wire) THEN ObjectMatches = {}
  ELSE TRUE

ArityMismatch ==
  /\ ObjectMatches # {}
  /\ Selected.shape = "Tuple"
  /\ IsArray(SelectedPayload)
  /\ Len(SelectedPayload[2]) # Len(Selected.types)

\* C12, as stated: every failure of the deserializer is the one condition
\* "cannot deserialize <TypeName>", an arity mismatch included.
C12_SingleErrorCondition ==
  (phase = "parsed" /\ ~IsOk(parsed)) =>
    parsed = Err(<<"InstantiationException: Cannot deserialize">> \o as_pascal_case(DE.name))

\* C12, amended: a document that selects no variant fails with the
\* instantiation error "Cannot deserialize <TypeName>"; an array whose length
\* is not the arity of the selected Tuple variant fails with another error, a
\* JsonParseException "Expected array of size" that names the field key and
\* not the type.
C12_ErrorConditions ==
  phase = "parsed" =>
    /\ NoVariantMatches =>
         parsed = Err(<<"InstantiationException: Cannot deserialize">> \o as_pascal_case(DE.name))
    /\ ArityMismatch =>
         parsed = Err(<<"JsonParseException: Expected array of size", Selected.json_name>>)

\* a Tuple variant of one slot has been read from an array of two elements
C12_Witness ==
  /\ phase = "parsed"
  /\ ArityMismatch
  /\ Len(Selected.types) = 1
  /\ Len(SelectedPayload[2]) = 2
  /\ ~IsOk(parsed)

(***************************************************************************)
(* Properties of the factories, predicates and accessors.                  *)
(***************************************************************************)
Accessed == got.variant # 0

\* C13: the accessor of variant X called on an instance of another variant
\* fails with the IllegalStateException at the call and returns no payload;
\* the deserializer never fails with that exception.
C13_WrongAccessorFails ==
  /\ (Accessed /\ ~is_variant(DE.variants[got.variant], got.on)) =>
       /\ ~IsOk(got.outcome)
       /\ got.outcome[2][1] = "IllegalStateException: Invalid variant"
  /\ (phase \in {"parsed", "accessed"} /\ ~IsOk(parsed) /\ parsed[1] # "none") =>
       parsed[2][1] # "IllegalStateException: Invalid variant"

\* an accessor of another variant has been called on an instance the
\* deserializer returned
C13_Witness ==
  /\ Accessed
  /\ IsOk(parsed)
  /\ got.on = parsed[2]
  /\ ~is_variant(DE.variants[got.variant], got.on)
  /\ ~IsOk(got.outcome)

\* the variants whose predicate isX() is true of x
PredicatesOf(x) == {k \in 1..Len(DE.variants) : is_variant(DE.variants[k], x)}

\* C14: the instance ofX(args) returns satisfies isX() and no other predicate,
\* its X accessors return the arguments given, slot by slot, and every
\* instance, from a factory or from the deserializer, satisfies exactly one
\* predicate.
C14_FactoriesPredicatesAccessors ==
  /\ Sent =>
       \A k \in 1..Len(DE.variants) :
         instance \in InstancesOf(DE, DE.variants[k], MaxDepth) => PredicatesOf(instance) = {k}
  /\ (phase \in {"parsed", "accessed"} /\ IsOk(parsed)) =>
       Cardinality(PredicatesOf(parsed[2])) = 1
  /\ (Accessed /\ is_variant(DE.variants[got.variant], got.on)) =>
       got.outcome = Ok(IF DE.variants[got.variant].shape = "Object" THEN got.on[3]
                        ELSE got.on[3][2][got.slot])

\* the second accessor of a Tuple variant of two slots has been called on an
\* instance its factory built, and returned the second argument
C14_Witness ==
  /\ Accessed
  /\ Sent
  /\ got.on = instance
  /\ is_variant(DE.variants[got.variant], instance)
  /\ Len(DE.variants[got.variant].types) = 2
  /\ got.slot = 2
  /\ got.outcome = Ok(instance[3][2][2])
  /\ instance[3][2][2] # JNull
  /\ instance[3][2][1] # instance[3][2][2]

(***************************************************************************)
(* Name conversions (src/src/ir/data.rs, impl Name): a text written in one *)
(* of the four case styles is turned into a Name by one of the three       *)
(* constructors and written back in the four styles.  Name has no          *)
(* constructor for UPPER_SNAKE text: a caller holding one has to pick one  *)
(* of the three.                                                           *)
(***************************************************************************)
\* bounds of the texts: the longest raw text, the most words, the longest word
MaxNameLen == 3

MaxWords == 2

MaxWordLen == 2

Styles == {"snake", "camel", "pascal", "upper"}

Constructors == {"snake", "camel", "pascal"}

Alphabet == {"a", "b", "A", "B", "1", "_"}

IsDigit(c) == c = "1"

\* the texts of at most n characters
RECURSIVE Texts(_)
Texts(n) ==
  IF n = 0 THEN {<<>>}
  ELSE Texts(n - 1) \cup {Append(t, c) : t \in {u \in Texts(n - 1) : Len(u) = n - 1}, c \in Alphabet}

\* a text validly written in a style: snake [a-z][a-z0-9_]*, camel
\* [a-z][a-zA-Z0-9]*, Pascal [A-Z][a-zA-Z0-9]*, UPPER_SNAKE [A-Z][A-Z0-9_]*
ValidIn(st, t) ==
  /\ t # <<>>
  /\ CASE st = "snake" ->
            /\ is_ascii_lowercase(t[1])
            /\ \A i \in 1..Len(t) : ~is_ascii_uppercase(t[i])
       [] st = "camel" ->
            /\ is_ascii_lowercase(t[1])
            /\ \A i \in 1..Len(t) : t[i] # "_"
       [] st = "pascal" ->
            /\ is_ascii_uppercase(t[1])
            /\ \A i \in 1..Len(t) : t[i] # "_"
       [] st = "upper" ->
            /\ is_ascii_uppercase(t[1])
            /\ \A i \in 1..Len(t) : ~is_ascii_lowercase(t[i])

\* the words of an identifier: a lowercase letter, then lowercase letters or digits
Words(n) == {w \in Texts(n) : w # <<>> /\ is_ascii_lowercase(w[1])
                              /\ \A i \in 1..Len(w) : is_ascii_lowercase(w[i]) \/ IsDigit(w[i])}

RECURSIVE WordLists(_)
WordLists(n) ==
  IF n = 0 THEN {<<>>}
  ELSE WordLists(n - 1)
         \cup {Append(ws, w) : ws \in {l \in WordLists(n - 1) : Len(l) = n - 1},
                                w \in Words(MaxWordLen)}

Capitalised(w) == <<to_ascii_uppercase(w[1])>> \o Tail(w)

Uppercased(w) == [i \in 1..Len(w) |-> to_ascii_uppercase(w[i])]

RECURSIVE Joined(_, _)
Joined(ws, sep) ==
  IF Len(ws) = 1 THEN ws[1] ELSE ws[1] \o sep \o Joined(Tail(ws), sep)

\* the spelling of a list of words in a style
Spelled(st, ws) ==
  CASE st = "snake" -> Joined(ws, <<"_">>)
    [] st = "camel" -> ws[1] \o Concat([i \in 1..(Len(ws) - 1) |-> Capitalised(ws[i + 1])])
    [] st = "pascal" -> Concat([i \in 1..Len(ws) |-> Capitalised(ws[i])])
    [] st = "upper" -> Joined([i \in 1..Len(ws) |-> Uppercased(ws[i])], <<"_">>)

\* Name::from_snake_case / from_camel_case / from_pascal_case
Name_from(c, t) ==
  CASE c = "snake" -> from_snake_case(t)
    [] c = "camel" -> from_camel_case(t)
    [] c = "pascal" -> from_pascal_case(t)

\* the four as_ methods of a Name
Name_as(st, n) ==
  CASE st = "snake" -> as_snake_case(n)
    [] st = "camel" -> as_camel_case(n)
    [] st = "pascal" -> as_pascal_case(n)
    [] st = "upper" -> as_upper_snake_case(n)

InitName ==
  /\ IRIdle
  /\ CodecOff
  /\ ResolverOff
  /\ TwoOff
  /\ MutexOff
  /\ style \in Styles
  /\ \/ /\ words \in WordLists(MaxWords) \ {<<>>}
        /\ text = Spelled(style, words)
     \/ /\ words = <<>>
        /\ text \in {t \in Texts(MaxNameLen) : ValidIn(style, t)}
  /\ ctor = "none"
  /\ made = <<>>
  /\ out = <<>>

\* Name::from_<c>(text), then the four as_ methods; the constructor is the
\* style's own when it has one
Convert(c) ==
  /\ ctor = "none"
  /\ style \in Constructors => c = style
  /\ ctor' = c
  /\ made' = Name_from(c, text)
  /\ out' = [st \in Styles |-> Name_as(st, Name_from(c, text))]
  /\ UNCHANGED <<style, words, text>>
  /\ UNCHANGED <<irvars, codecvars, resolvervars, twovars, mutexvars>>

NextName == \E c \in Constructors : Convert(c)

SpecName == InitName /\ [][NextName]_vars

Converted == ctor # "none"

\* the canonical form is lower snake case: it holds no uppercase letter
IsCanonical(n) == \A i \in 1..Len(n) : ~is_ascii_uppercase(n[i])

C16_SameCanonicalForm ==
  (Converted /\ words # <<>> /\ style \in Constructors) =>
    /\ made = Spelled("snake", words)
    /\ out["snake"] = Spelled("snake", words)
    /\ out["camel"] = Spelled("camel", words)
    /\ out["pascal"] = Spelled("pascal", words)
    /\ out["upper"] = Spelled("upper", words)
    /\ out["upper"] = Uppercased(out["snake"])

\* a Name has been made from the Pascal spelling of two words
C16_Witness ==
  /\ Converted
  /\ Len(words) = 2
  /\ style = "pascal"
  /\ out["camel"] # out["pascal"]
  /\ out["snake"] = Spelled("snake", words)

(***************************************************************************)
(* Order of the insertion into the seen set.                               *)
(***************************************************************************)
\* C20: while the add_to_ir body of a user type runs, and so while its fields
\* or variant payload types are visited, the type's identity is in type_ids,
\* by whatever path the body was reached.
C20_SeenBeforeBody ==
  \A f \in 1..Len(stack) :
    (stack[f].op = "body" /\ stack[f].t \in UserTypes) => has_type_id(type_ids, stack[f].t)

(***************************************************************************)
(* The type resolver on nested types (type_resolver.rs, types.rs).  A type *)
(* term is a named type of the tables above (<<"T", name>>) or one of the  *)
(* generic containers applied to terms.                                    *)
(***************************************************************************)
\* how deep the containers nest
MaxNest == 2

Leaves == {<<"T", t>> : t \in Prims \cup {"Dependency"}}

MapKeys == {<<"T", "String">>, <<"T", "i32">>}

RECURSIVE Terms(_)
Terms(n) ==
  IF n = 0 THEN Leaves
  ELSE Terms(n - 1)
         \cup {<<"Vec", e>> : e \in Terms(n - 1)}
         \cup {<<"Option", e>> : e \in Terms(n - 1)}
         \cup {<<"Box", e>> : e \in Terms(n - 1)}
         \cup {<<"HashMap", k, v>> : k \in MapKeys, v \in Terms(n - 1)}

\* mutant of JavaType_java_type: Option<T> is resolved to java.util.Optional<T>
RECURSIVE JavaType_java_type_Optional(_)
JavaType_java_type_Optional(ty) ==
  CASE ty[1] = "T" -> java_type(ty[2])
    [] ty[1] = "Vec" ->
         <<"j","a","v","a",".","u","t","i","l",".","L","i","s","t","<">>
           \o JavaType_java_type_Optional(ty[2]) \o <<">">>
    [] ty[1] = "Option" ->
         <<"j","a","v","a",".","u","t","i","l",".","O","p","t","i","o","n","a","l","<">>
           \o JavaType_java_type_Optional(ty[2]) \o <<">">>
    [] ty[1] = "Box" -> JavaType_java_type_Optional(ty[2])
    [] ty[1] = "HashMap" ->
         <<"j","a","v","a",".","u","t","i","l",".","M","a","p","<">>
           \o JavaType_java_type_Optional(ty[2]) \o <<",", " ">>
           \o JavaType_java_type_Optional(ty[3]) \o <<">">>

\* <T as JavaType>::java_type() for the generic impls of Vec<T>, Option<T>,
\* HashMap<K, V> and Box<T>
RECURSIVE JavaType_java_type(_)
JavaType_java_type(ty) ==
  CASE ty[1] = "T" -> java_type(ty[2])
    [] ty[1] = "Vec" ->
         <<"j","a","v","a",".","u","t","i","l",".","L","i","s","t","<">>
           \o JavaType_java_type(ty[2]) \o <<">">>
    [] ty[1] = "Option" -> JavaType_java_type(ty[2])
    [] ty[1] = "Box" -> JavaType_java_type(ty[2])
    [] ty[1] = "HashMap" ->
         <<"j","a","v","a",".","u","t","i","l",".","M","a","p","<">>
           \o JavaType_java_type(ty[2]) \o <<",", " ">> \o JavaType_java_type(ty[3]) \o <<">">>

\* TypeTarget::Java.resolve_type::<T>()
TypeTarget_resolve_type(ty) == JavaType_java_type(ty)

InitResolver ==
  /\ IRIdle
  /\ CodecOff
  /\ NameOff
  /\ TwoOff
  /\ MutexOff
  /\ term \in Terms(MaxNest)
  /\ resolved = <<>>

Resolve ==
  /\ resolved = <<>>
  /\ resolved' = TypeTarget_resolve_type(term)
  /\ UNCHANGED term
  /\ UNCHANGED <<irvars, codecvars, namevars, twovars, mutexvars>>

NextResolver == Resolve

SpecResolver == InitResolver /\ [][NextResolver]_vars

Resolved == resolved # <<>>

\* the term without its Option and Box wrappers, at every depth
RECURSIVE Erased(_)
Erased(ty) ==
  CASE ty[1] = "T" -> ty
    [] ty[1] = "Vec" -> <<"Vec", Erased(ty[2])>>
    [] ty[1] \in {"Option", "Box"} -> Erased(ty[2])
    [] ty[1] = "HashMap" -> <<"HashMap", Erased(ty[2]), Erased(ty[3])>>

\* C17: Option and Box are erased by the resolver at any nesting: a type
\* resolves as the type without its Option and Box wrappers does, and
\* Option<T> and Box<T> resolve as T.
C17_OptionAndBoxErased ==
  Resolved =>
    /\ resolved = TypeTarget_resolve_type(Erased(term))
    /\ TypeTarget_resolve_type(<<"Option", term>>) = resolved
    /\ TypeTarget_resolve_type(<<"Box", term>>) = resolved

\* an Option of a Box has been resolved
C17_Witness ==
  /\ Resolved
  /\ term[1] = "Option"
  /\ term[2][1] = "Box"
  /\ resolved = TypeTarget_resolve_type(term[2][2])

\* the boxed reference type of a primitive
Boxed(t) ==
  CASE t = "bool" -> <<"B","o","o","l","e","a","n">>
    [] t = "i8" -> <<"B","y","t","e">>
    [] t = "i16" -> <<"S","h","o","r","t">>
    [] t = "i32" -> <<"I","n","t","e","g","e","r">>
    [] t = "i64" -> <<"L","o","n","g">>
    [] t = "f32" -> <<"F","l","o","a","t">>
    [] t = "f64" -> <<"D","o","u","b","l","e">>
    [] t = "String" -> <<"S","t","r","i","n","g">>

\* a term built of primitives, lists and maps only
RECURSIVE PrimsListsMaps(_)
PrimsListsMaps(ty) ==
  CASE ty[1] = "T" -> ty[2] \in Prims
    [] ty[1] = "Vec" -> PrimsListsMaps(ty[2])
    [] ty[1] \in {"Option", "Box"} -> FALSE
    [] ty[1] = "HashMap" -> PrimsListsMaps(ty[2]) /\ PrimsListsMaps(ty[3])

\* the Java type text the spec gives for primitives, lists and maps
RECURSIVE JavaText(_)
JavaText(ty) ==
  CASE ty[1] = "T" -> Boxed(ty[2])
    [] ty[1] = "Vec" -> ListPrefix \o JavaText(ty[2]) \o <<">">>
    [] ty[1] = "HashMap" ->
         <<"j","a","v","a",".","u","t","i","l",".","M","a","p","<">>
           \o JavaText(ty[2]) \o <<",", " ">> \o JavaText(ty[3]) \o <<">">>

\* C18: a primitive resolves to its boxed reference type, Vec<T> to
\* java.util.List<...> and HashMap<K, V> to java.util.Map<..., ...> of the
\* resolved element types, at any nesting.
C18_PrimitivesListsMaps ==
  (Resolved /\ PrimsListsMaps(term)) => resolved = JavaText(term)

\* a map whose values are lists has been resolved
C18_Witness ==
  /\ Resolved
  /\ term[1] = "HashMap"
  /\ term[3][1] = "Vec"
  /\ PrimsListsMaps(term)

(***************************************************************************)
(* Two registries.  An IntermediateRepresentation owns its four            *)
(* collections and every method takes it by reference (&mut self, or       *)
(* ir: &mut IntermediateRepresentation in add_to_ir); a call ir.add::<T>() *)
(* is taken here as one step, the whole recursion included.                *)
(***************************************************************************)
Registries == {1, 2}

TwoRoots == {"MyStruct", "MyEnum", "Vec<Dependency>"}

\* IntermediateRepresentation::new
IR_new == [structs |-> <<>>, enums |-> <<>>, data_enums |-> <<>>, type_ids |-> {}]

\* the entity the derived add_to_ir of t hands to ir
IR_emit(ir, t) ==
  [ir EXCEPT !.structs = IF t \in StructTypes THEN add_struct(@, DeriveStruct(t)) ELSE @,
             !.enums = IF t \in EnumTypes THEN add_enum(@, DeriveEnum(t)) ELSE @,
             !.data_enums = IF t \in DataEnumTypes THEN add_data_enum(@, DeriveDataEnum(t))
                            ELSE @]

RECURSIVE IR_add(_, _)
RECURSIVE GenerateIR_add_to_ir(_, _)
RECURSIVE IR_calls(_, _, _)

\* the calls add_to_ir of t makes for the types cs, in order
IR_calls(ir, t, cs) ==
  IF cs = <<>> THEN ir
  ELSE IR_calls(IF t \in Containers THEN GenerateIR_add_to_ir(ir, Head(cs))
                ELSE IR_add(ir, Head(cs)),
                t, Tail(cs))

\* T::add_to_ir(ir)
GenerateIR_add_to_ir(ir, t) ==
  IF t \in UserTypes
    THEN IF emit_first THEN IR_calls(IR_emit(ir, t), t, Callees(t))
         ELSE IR_emit(IR_calls(ir, t, Callees(t)), t)
    ELSE IR_calls(ir, t, Callees(t))

\* ir.add::<T>()
IR_add(ir, t) ==
  IF has_type_id(ir.type_ids, t) THEN ir
  ELSE GenerateIR_add_to_ir([ir EXCEPT !.type_ids = add_type_id(@, t)], t)

\* mutant of Registry_write: the collections are shared by the registries
Registry_write_Shared(rs, r, ir) == [q \in DOMAIN rs |-> ir]

\* a method with &mut self writes the registry it is called on
Registry_write(rs, r, ir) == [rs EXCEPT ![r] = ir]

NotGenerated == [done |-> FALSE, at |-> <<>>, result |-> NoResult]

InitTwo ==
  /\ structs = <<>>
  /\ enums = <<>>
  /\ data_enums = <<>>
  /\ type_ids = {}
  /\ stack = <<>>
  /\ walked = <<>>
  /\ ncalls = 0
  /\ roots = <<>>
  /\ emit_first \in BOOLEAN
  /\ result = NoResult
  /\ fail_at = 0
  /\ CodecOff
  /\ NameOff
  /\ ResolverOff
  /\ MutexOff
  /\ irs = [r \in Registries |-> IR_new]
  /\ calls = [r \in Registries |-> <<>>]
  /\ outputs = [r \in Registries |-> NotGenerated]

\* ir.add::<t>() on registry r
TwoAdd(r, t) ==
  /\ Len(calls[r]) < MaxRoots
  /\ irs' = Registry_write(irs, r, IR_add(irs[r], t))
  /\ calls' = [calls EXCEPT ![r] = Append(@, t)]
  /\ UNCHANGED outputs
  /\ UNCHANGED <<irvars, codecvars, namevars, resolvervars, mutexvars>>

\* generate_java_code(&ir) on registry r
TwoGenerate(r) ==
  /\ outputs' = [outputs EXCEPT ![r] =
                   [done |-> TRUE, at |-> calls[r],
                    result |-> generate_java_code(irs[r].structs, irs[r].enums,
                                                  irs[r].data_enums, 0)]]
  /\ UNCHANGED <<irs, calls>>
  /\ UNCHANGED <<irvars, codecvars, namevars, resolvervars, mutexvars>>

NextTwo ==
  \/ \E r \in Registries, t \in TwoRoots : TwoAdd(r, t)
  \/ \E r \in Registries : TwoGenerate(r)

SpecTwo == InitTwo /\ [][NextTwo]_vars

\* the registry a sequence of add calls leaves, from a fresh one
RECURSIVE Replay(_)
Replay(ts) == IF ts = <<>> THEN IR_new ELSE IR_add(Replay(SubSeq(ts, 1, Len(ts) - 1)), ts[Len(ts)])

IR_now ==
  [structs |-> structs, enums |-> enums, data_enums |-> data_enums, type_ids |-> type_ids]

Collections(ir) == <<ir.structs, ir.enums, ir.data_enums>>

\* ir.add::<T>() for each of the types ts, in order
RECURSIVE AddAll(_, _)
AddAll(ir, ts) == IF ts = <<>> THEN ir ELSE AddAll(IR_add(ir, Head(ts)), Tail(ts))

\* the last root call has returned
Returned == stack = <<>> /\ roots # <<>>

LastRoot == roots[Len(roots)]

\* the registry before the last root call
Before == Replay(SubSeq(roots, 1, Len(roots) - 1))

\* the number of entities a registry holds for type identity t
Count(ir, t) == CountOf(ir.structs, t) + CountOf(ir.enums, t) + CountOf(ir.data_enums, t)

\* C21: primitives and containers produce no entity of their own: once
\* add<P>() of a primitive has returned the three collections are what they
\* were before the call, and once add<C>() of a container has returned they
\* hold no entity beyond those that registering the element types of C (K and
\* V for a map) on the registry before the call gives.
C21_ContainersTransparent ==
  Returned =>
    /\ LastRoot \in Prims => Collections(IR_now) = Collections(Before)
    /\ LastRoot \in Containers =>
         \A t \in UserTypes :
           Count(IR_now, t) <= Count(AddAll(Before, TypeArgs(LastRoot)), t)

\* the part of C21 about the frames of primitives and containers themselves:
\* a step of add_to_ir of a primitive or of a container hands nothing to the IR
C21_NoOwnEntity ==
  [][(stack # <<>> /\ Top.op = "body" /\ Top.t \notin UserTypes)
       => UNCHANGED <<structs, enums, data_enums>>]_vars

\* the sequence a is the beginning of the sequence b
IsPrefix(a, b) == Len(a) <= Len(b) /\ SubSeq(b, 1, Len(a)) = a

\* C22: the IR is append-only: every step of the collector leaves each of
\* structs, enums and data_enums beginning with its former entries, in their
\* former order, and keeps every identity of the seen set.
C22_AppendOnly ==
  [][/\ IsPrefix(structs, structs')
     /\ IsPrefix(enums, enums')
     /\ IsPrefix(data_enums, data_enums')
     /\ type_ids \subseteq type_ids']_vars

\* two root calls have filled the IR: it holds two structs, an enum and
\* several identities
C22_Witness ==
  /\ Returned
  /\ Len(roots) = 2
  /\ Len(structs) >= 2
  /\ Len(enums) >= 1
  /\ Cardinality(type_ids) >= 3

\* C23: add<T>() is idempotent: when it is called for an identity that is in
\* the seen set it returns at once, leaving structs, enums, data_enums and the
\* seen set as they were, and T's add_to_ir is not invoked (no body starts, no
\* frame is pushed).
C23_AddIdempotent ==
  [][(stack # <<>> /\ Top.op = "add" /\ Top.t \in type_ids)
       => /\ UNCHANGED <<structs, enums, data_enums, type_ids, walked>>
          /\ stack' = Pop]_vars

\* a user type was added as a root twice and its add_to_ir has run once
C23_Witness ==
  /\ Returned
  /\ Len(roots) = 2
  /\ roots[1] = roots[2]
  /\ roots[1] \in UserTypes
  /\ Runs(roots[1]) = 1
  /\ EntityCount(roots[1]) = 1

\* a generate_java_code has returned and no root was added since
Generated == result.kind # "None"

\* C24: generate_java_code only reads the IR: a step of it, successful or
\* failed, leaves structs, enums, data_enums and the seen set as they were, and
\* the result it returned is the result that generating again from the IR as
\* it is now returns.
C24_GenerateReadOnly ==
  /\ [][(stack = <<>> /\ stack' = <<>>)
          => UNCHANGED <<structs, enums, data_enums, type_ids>>]_vars
  /\ [](Generated => result = generate_java_code(structs, enums, data_enums, fail_at))

\* a generation has failed on an IR of several entities, which are still there
C24_Witness ==
  /\ Generated
  /\ result.kind = "Err"
  /\ fail_at >= 2
  /\ NumEntities >= 2
  /\ type_ids # {}

(***************************************************************************)
(* The segment boundaries of Name::from_camel_case / from_pascal_case.     *)
(***************************************************************************)
\* the text t in lowercase with a '_' put before each position of B, from
\* position i on
RECURSIVE SplitFrom(_, _, _)
SplitFrom(t, B, i) ==
  IF i > Len(t) THEN <<>>
  ELSE (IF i \in B THEN <<"_">> ELSE <<>>) \o <<to_ascii_lowercase(t[i])>> \o SplitFrom(t, B, i + 1)

SplitAt(t, B) == SplitFrom(t, B, 1)

\* the positions of the uppercase letters that follow a lowercase letter
AfterLowercase(t) ==
  {i \in 2..Len(t) : is_ascii_uppercase(t[i]) /\ is_ascii_lowercase(t[i - 1])}

\* the positions of the uppercase letters other than the first character
EveryUppercase(t) == {i \in 2..Len(t) : is_ascii_uppercase(t[i])}

FromCamel == Converted /\ ctor \in {"camel", "pascal"}

\* C25, as stated: from_camel_case and from_pascal_case start a new segment
\* only before an uppercase letter that follows a lowercase letter, never at
\* the first character; an uppercase letter after an uppercase letter or a
\* digit starts none.
C25_BoundaryAfterLowercaseOnly ==
  FromCamel => made = SplitAt(text, AfterLowercase(text))

\* C25, amended: a new segment starts before every uppercase letter other than
\* the first character, whatever precedes it (a lowercase letter, an uppercase
\* letter or a digit); the first character is never a boundary.
C25_BoundaryBeforeEveryUppercase ==
  FromCamel => made = SplitAt(text, EveryUppercase(text))

\* a Pascal text whose second uppercase letter follows a digit has been
\* converted, and a segment starts at that letter
C25_Witness ==
  /\ FromCamel
  /\ ctor = "pascal"
  /\ Len(text) = 3
  /\ is_ascii_uppercase(text[1])
  /\ IsDigit(text[2])
  /\ is_ascii_uppercase(text[3])
  /\ made = <<to_ascii_lowercase(text[1]), text[2], "_", to_ascii_lowercase(text[3])>>

(***************************************************************************)
(* The members of a generated tagged-union class (cg_data_enum.rs).        *)
(***************************************************************************)
\* the classes the last generate_java_code returned that are tagged unions
UnionClasses ==
  {i \in 1..Len(result.classes) : "members" \in DOMAIN result.classes[i].code}

\* C26: within one generated tagged-union class no two of the generated
\* factories, accessors and predicates share a name, whatever the names and
\* arities of the variants.
C26_MemberNamesDistinct ==
  (Generated /\ result.kind = "Ok") =>
    \A i \in UnionClasses :
      LET ms == result.classes[i].code.members
      IN \A a, b \in 1..Len(ms) : a # b => ms[a].name # ms[b].name

(***************************************************************************)
(* The identifiers a generated class is emitted under (cg_struct.rs,       *)
(* cg_enum.rs, cg_data_enum.rs).                                           *)
(***************************************************************************)
\* the entities of the IR in the order generate_java_code renders them
Entities == structs \o enums \o data_enums

\* C27: every class generate_java_code returns is emitted under the self_type
\* of its entity: the name of its source unit, the class identifier it declares
\* and the constructor identifier are that one string.
C27_EmittedUnderSelfType ==
  (Generated /\ result.kind = "Ok") =>
    \A k \in 1..Len(result.classes) :
      /\ result.classes[k].name = Entities[k].self_type
      /\ result.classes[k].code.declared = Entities[k].self_type
      /\ result.classes[k].code.constructor = Entities[k].self_type

(***************************************************************************)
(* Documents that no serializer wrote (external.rs).                       *)
(***************************************************************************)
\* the deserializer has accepted a single-key object handed to it from outside
Accepted ==
  /\ ~Sent
  /\ phase = "parsed"
  /\ IsOk(parsed)
  /\ IsObject(wire)
  /\ Len(wire[2]) = 1

\* C28: the deserializer accepts only canonical encodings: a single-key
\* object it accepts is the document the serializer writes for the instance
\* it returned; a one-element array [x] is not accepted in place of x.
C28_OnlyCanonicalAccepted ==
  Accepted => Serializer_serialize(DE, parsed[2]) = wire

\* the case C28 names: a one-element array accepted as the payload of an
\* arity-1 Tuple variant or of an Object variant, and read as its element
C28_ArrayOfOneAccepted ==
  /\ Accepted
  /\ IsArray(wire[2][1][2])
  /\ Len(wire[2][1][2][2]) = 1
  /\ Serializer_serialize(DE, parsed[2]) = NObject(<< <<wire[2][1][1], wire[2][1][2][2][1]>> >>)

(***************************************************************************)
(* The order of the root calls (java.rs rdc_java!, data.rs add).           *)
(***************************************************************************)
\* the registry the two root calls give a fresh IR when made in the other order
Swapped == Replay(<<roots[2], roots[1]>>)

\* C29: the entities registered do not depend on the order of the roots: after
\* add<A>() then add<B>() the IR holds, for every type identity, as many
\* Structs, Enums and DataEnums as after add<B>() then add<A>().
C29_RootOrderIrrelevant ==
  (Returned /\ Len(roots) = 2) =>
    \A t \in UserTypes :
      /\ CountOf(structs, t) = CountOf(Swapped.structs, t)
      /\ CountOf(enums, t) = CountOf(Swapped.enums, t)
      /\ CountOf(data_enums, t) = CountOf(Swapped.data_enums, t)

\* a struct was added and then a container of it: the IR holds the struct
\* twice, as it does when the container is added first
C29_Witness ==
  /\ Returned
  /\ Len(roots) = 2
  /\ roots[1] \in StructTypes
  /\ roots[2] \in Containers
  /\ \E i \in 1..Len(TypeArgs(roots[2])) : TypeArgs(roots[2])[i] = roots[1]
  /\ CountOf(structs, roots[1]) = 2
  /\ CountOf(Swapped.structs, roots[1]) = 2

(***************************************************************************)
(* run_java (src/src/targets/java/tests/project_builder.rs).  The tests of *)
(* the generators run on the threads of the test harness and each calls    *)
(* run_java, which takes the static GRADLE_MUTEX around run_gradle.        *)
(*   pc[t]:   where thread t is: "idle" (outside run_java), "waiting" (at   *)
(*            GRADLE_MUTEX.lock()), "inside" (in run_gradle, holding the   *)
(*            guard), "returned" (run_gradle has returned, the guard is    *)
(*            not dropped yet), "panicked"                                 *)
(*   guard:   the thread that holds the MutexGuard, 0 when the mutex is    *)
(*            unlocked                                                     *)
(*   poisoned: the poison flag of the mutex                                *)
(*   ncompleted[t]: the calls of run_java thread t has completed           *)
(*   ret[t]:  what the last run_gradle of thread t returned                *)
(***************************************************************************)
Threads == {1, 2, 3}

\* the calls of run_java a test makes
MaxRuns == 2

InitRun ==
  /\ IRIdle
  /\ CodecOff
  /\ NameOff
  /\ ResolverOff
  /\ TwoOff
  /\ pc = [t \in Threads |-> "idle"]
  /\ guard = 0
  /\ poisoned = FALSE
  /\ ncompleted = [t \in Threads |-> 0]
  /\ ret = [t \in Threads |-> "none"]

\* run_java is called: println!("Waiting for gradle lock")
Call(t) ==
  /\ pc[t] = "idle"
  /\ ncompleted[t] < MaxRuns
  /\ pc' = [pc EXCEPT ![t] = "waiting"]
  /\ UNCHANGED <<guard, poisoned, ncompleted, ret>>
  /\ UNCHANGED <<irvars, codecvars, namevars, resolvervars, twovars>>

\* GRADLE_MUTEX.lock().unwrap() on a mutex that is unlocked and not poisoned
Lock(t) ==
  /\ pc[t] = "waiting"
  /\ guard = 0
  /\ ~poisoned
  /\ guard' = t
  /\ pc' = [pc EXCEPT ![t] = "inside"]
  /\ UNCHANGED <<poisoned, ncompleted, ret>>
  /\ UNCHANGED <<irvars, codecvars, namevars, resolvervars, twovars>>

\* GRADLE_MUTEX.lock().unwrap() on a poisoned mutex: lock() returns the
\* PoisonError, unwrap panics and the guard in the error is dropped
LockPoisoned(t) ==
  /\ pc[t] = "waiting"
  /\ guard = 0
  /\ poisoned
  /\ pc' = [pc EXCEPT ![t] = "panicked"]
  /\ UNCHANGED <<guard, poisoned, ncompleted, ret>>
  /\ UNCHANGED <<irvars, codecvars, namevars, resolvervars, twovars>>

\* run_gradle returns r, Ok(stdout) or one of its Errors
GradleReturn(t, r) ==
  /\ pc[t] = "inside"
  /\ ret' = [ret EXCEPT ![t] = r]
  /\ pc' = [pc EXCEPT ![t] = "returned"]
  /\ UNCHANGED <<guard, poisoned, ncompleted>>
  /\ UNCHANGED <<irvars, codecvars, namevars, resolvervars, twovars>>

\* run_gradle panics (project_dir.to_str().unwrap(), println!): the guard is
\* dropped while the thread unwinds, which poisons the mutex
GradlePanic(t) ==
  /\ pc[t] = "inside"
  /\ pc' = [pc EXCEPT ![t] = "panicked"]
  /\ guard' = 0
  /\ poisoned' = TRUE
  /\ UNCHANGED <<ncompleted, ret>>
  /\ UNCHANGED <<irvars, codecvars, namevars, resolvervars, twovars>>

\* mutant of Drop: run_java returns without dropping the guard
Drop_Forget(t) ==
  /\ pc[t] = "returned"
  /\ pc' = [pc EXCEPT ![t] = "idle"]
  /\ ncompleted' = [ncompleted EXCEPT ![t] = @ + 1]
  /\ UNCHANGED <<guard, poisoned, ret>>
  /\ UNCHANGED <<irvars, codecvars, namevars, resolvervars, twovars>>

\* drop(guard); result
Drop(t) ==
  /\ pc[t] = "returned"
  /\ guard' = 0
  /\ pc' = [pc EXCEPT ![t] = "idle"]
  /\ ncompleted' = [ncompleted EXCEPT ![t] = @ + 1]
  /\ UNCHANGED <<poisoned, ret>>
  /\ UNCHANGED <<irvars, codecvars, namevars, resolvervars, twovars>>

\* run_gradle ends
GradleEnd(t) == (\E r \in {"Ok", "Err"} : GradleReturn(t, r)) \/ GradlePanic(t)

NextRun ==
  \/ \E t \in Threads : Call(t)
  \/ \E t \in Threads : Lock(t)
  \/ \E t \in Threads : LockPoisoned(t)
  \/ \E t \in Threads, r \in {"Ok", "Err"} : GradleReturn(t, r)
  \/ \E t \in Threads : GradlePanic(t)
  \/ \E t \in Threads : Drop(t)

SpecRun == InitRun /\ [][NextRun]_vars

\* a thread that can take its next step inside run_java takes it: the scheduler
\* runs every thread, lock() returns once the mutex is unlocked and stays so,
\* and run_gradle ends; nothing makes a test call run_java
FairRun ==
  \A t \in Threads :
    /\ WF_vars(Lock(t))
    /\ WF_vars(LockPoisoned(t))
    /\ WF_vars(GradleEnd(t))
    /\ WF_vars(Drop(t))

SpecRunFair == SpecRun /\ FairRun

\* the threads inside run_gradle
InsideGradle == {t \in Threads : pc[t] = "inside"}

\* C30: concurrent run_java calls are mutually exclusive: at most one thread
\* is inside run_gradle at any time; the guard is held exactly from lock() to
\* the drop that follows the return of run_gradle, with Ok or with Err, so the
\* mutex is unlocked once run_java has returned; and a thread waiting for the
\* lock eventually gets into run_gradle (unless a run_gradle has panicked and
\* poisoned the mutex).
C30_MutualExclusion ==
  /\ [](Cardinality(InsideGradle) <= 1)
  /\ [](\A t \in Threads : guard = t <=> pc[t] \in {"inside", "returned"})
  /\ \A t \in Threads : (pc[t] = "waiting") ~> (pc[t] = "inside" \/ poisoned)

\* a thread is inside run_gradle while another waits for the lock, after a
\* third one has returned with an Err and released it
C30_Witness ==
  /\ pc # <<>>
  /\ \E a, b, c \in Threads :
       /\ pc[a] = "inside"
       /\ pc[b] = "waiting"
       /\ ret[c] = "Err"
       /\ ncompleted[c] >= 1
       /\ guard = a
       /\ ~poisoned

====
